---- MODULE Spec2Model ----
(***************************************************************************)
(* The P2P escrow core of finly-backend: the wallet ledger, the offer      *)
(* registry and the trade engine of src/routes/p2p.ts, over the mongoose   *)
(* schemas of src/unnamed/part_006 (Wallet, Deposit), src/models/P2POffer  *)
(* and src/models/P2PTrade.                                                *)
(*                                                                         *)
(* Every route handler is an async function: between two awaits another    *)
(* request may run.  A handler is therefore a little process (req[r]) and  *)
(* every action below is ONE awaited database operation together with the  *)
(* synchronous code that follows it up to the next await.                  *)
(*                                                                         *)
(* Amounts are integers.  The handlers compute on IEEE doubles; the inputs *)
(* are restricted to those whose quotient amount / price is an integer, so *)
(* rounding plays no part in what is checked here.                         *)
(***************************************************************************)
EXTENDS Integers, FiniteSets, Sequences, TLC

(* ------------------------------ bounds --------------------------------- *)
MaxDeposits == 1
MaxTime == 1

Users == {"u1", "u2"}
OfferOwners == {"u1"}
DefaultInputs == {FALSE}
Reqs == {"r1", "r2"}
SlotNo(r) == IF r = "r1" THEN 1 ELSE 2
WalletIds == 1..2
OfferIds == {1}
TradeIds == {1}
DepositIds == 1..MaxDeposits
Networks == {"BTC"}
WalletNetworkInputs == {"BTC", "BTCTEST"}
DepositAmounts == {2}
OfferTypes == {"buy", "sell"}
OfferAmounts == {2, 3}
OfferPrices == {2}
OfferMinLimits == {2}
OfferMaxLimits == {4}
FiatAmounts == {1, 4, 6}
PaymentMethods == {"bank_transfer"}
AcceptPaymentMethods == {"bank_transfer", "paypal"}
\* Callers of the trade status route: the users and one who is party to nothing.
TradeCallers == Users \cup {"u3"}
OfferStatusInputs == {"active", "cancelled"}
\* Time to live of an offer, in units of the clock.
ExpiresInHours == {1}
\* Bodies of POST /offers, the malformed ones included.
OfferCryptoInputs == {"BTC", "btc", "XYZ"}
OfferAmountInputs == {0, 2, 5}
OfferMinLimitInputs == {2, 5}
OfferPaymentMethodInputs == {{}, {"bank_transfer"}}

(* ------------------------- program constants --------------------------- *)
supportedCryptos == {"BTC", "ETH", "USDT", "BNB", "ADA", "XRP", "SOL", "DOT", "DOGE", "AVAX"}
validStatuses == {"pending", "payment_sent", "payment_received", "crypto_released",
                  "completed", "cancelled", "disputed"}
Cryptos == {"BTC"}
TradeStatusInputs == {"payment_sent", "disputed", "completed", "cancelled", "bogus"}

\* An id no document was created under yet, and the tombstone of a deleted one.
Null == [absent |-> "never created"]
Deleted == [absent |-> "deleted"]

VARIABLES wallets, deposits, offers, trades, req, now, escrow, last

vars == <<wallets, deposits, offers, trades, req, now, escrow, last>>

(* ------------------------------ helpers -------------------------------- *)
IsDoc(x) == "absent" \notin DOMAIN x

Min(S) == CHOOSE x \in S : \A y \in S : x <= y

\* The lowest id not yet used in a collection (ObjectIds are never reused).
FreeId(coll) == Min({i \in DOMAIN coll : coll[i] = Null})
HasFreeId(coll) == \E i \in DOMAIN coll : coll[i] = Null

\* if (doc.field) on a hydrated mongoose document: a path the schema does not
\* declare reads as undefined, which is falsy.
IsTruthy(doc, f) == f \in DOMAIN doc /\ doc[f] = TRUE

\* String.prototype.toUpperCase on the cryptocurrency symbols that occur.
toUpperCase(s) ==
  IF s = "btc" THEN "BTC" ELSE IF s = "xyz" THEN "XYZ" ELSE s

\* A handler that has answered leaves its slot; a new request takes the first
\* free slot (which slot it is plays no part in what a handler does).
Idle == [pc |-> "idle"]
Done(op, user, res) == Idle
Free(r) == /\ req[r].pc = "idle"
           /\ \A r2 \in Reqs : req[r2].pc = "idle" => SlotNo(r) <= SlotNo(r2)

\* What the last step was, seen from outside: a call of accept or of the trade
\* status route with its inputs and the answer its first await led to (res 0:
\* the handler goes on), an answer a later await led to, or neither.  It is
\* kept only in behaviours that start with it switched on.
NoHistory == [ev |-> "off"]
Record(entry) == IF last = NoHistory THEN NoHistory ELSE entry
Quiet == Record([ev |-> "none"])
Answer(op, res) == Record([ev |-> "answer", op |-> op, res |-> res])

(* ------------------------------ Wallet --------------------------------- *)
\* walletSchema: balance and lockedBalance carry min: 0, validated by save().
WalletValid(w) == w.balance >= 0 /\ w.lockedBalance >= 0

\* Model.findOne(filter): the first matching document in natural (insertion)
\* order, 0 when there is none.
\* A match that ignores the condition on balance.
WalletMatchesAnyBalance(w, filter) ==
  \A f \in DOMAIN filter \ {"balance"} : w[f] = filter[f]

\* A filter gives a value per path, or {$gte: n} for balance.
WalletMatches(w, filter) ==
  \A f \in DOMAIN filter :
    IF f = "balance" THEN w.balance >= filter.balance.gte ELSE w[f] = filter[f]

FindOneWallet(filter) ==
  LET S == {i \in WalletIds : IsDoc(wallets[i]) /\ WalletMatches(wallets[i], filter)}
  IN  IF S = {} THEN 0 ELSE Min(S)

\* walletSchema.pre('save'): a default wallet clears the flag on the user's
\* other wallets of the same cryptocurrency.
PreSaveWallet(ws, id, w) ==
  [i \in WalletIds |->
     IF w.isDefault /\ i # id /\ IsDoc(ws[i])
        /\ ws[i].userId = w.userId /\ ws[i].cryptocurrency = w.cryptocurrency
     THEN [ws[i] EXCEPT !.isDefault = FALSE]
     ELSE ws[i]]

\* WalletGenerator.generateAddress: a function of (userId, cryptocurrency,
\* network) alone; the address index is unique.
generateAddress(userId, cryptocurrency, network) == <<userId, cryptocurrency, network>>

\* An address index that is not unique.
AddressTakenNever(a) == FALSE

AddressTaken(a) ==
  \E i \in WalletIds : IsDoc(wallets[i]) /\ wallets[i].address = a

NewWallet(userId, cryptocurrency, network, isDefault) ==
  [userId |-> userId, cryptocurrency |-> cryptocurrency, network |-> network,
   address |-> generateAddress(userId, cryptocurrency, network),
   isDefault |-> isDefault, balance |-> 0, lockedBalance |-> 0,
   totalDeposits |-> 0, isActive |-> TRUE]

\* POST /wallets, up to the first await's answer: Wallet.findOne for an active
\* wallet of the same user, cryptocurrency and network.
WalletCreateFind(r, u, c, n, d) ==
  /\ Free(r)
  /\ HasFreeId(wallets)
  /\ LET existing == FindOneWallet([userId |-> u, cryptocurrency |-> toUpperCase(c),
                                   network |-> n, isActive |-> TRUE])
     IN  req' = [req EXCEPT ![r] =
                   IF toUpperCase(c) \notin supportedCryptos
                   THEN Done("createWallet", u, 400)
                   ELSE IF existing # 0 THEN Done("createWallet", u, 400)
                   ELSE [pc |-> "w_create", user |-> u,
                         cryptocurrency |-> toUpperCase(c), network |-> n,
                         isDefault |-> d]]
  /\ UNCHANGED <<wallets, deposits, offers, trades, now, escrow>>
  /\ last' = Quiet

\* POST /wallets: Wallet.create (validation, pre-save hook, insert under the
\* unique address index) and the response.
WalletCreateInsert(r) ==
  /\ req[r].pc = "w_create"
  /\ LET q == req[r]
         w == NewWallet(q.user, q.cryptocurrency, q.network, q.isDefault)
         id == FreeId(wallets)
     IN  IF AddressTaken(w.address) \/ ~HasFreeId(wallets)
         THEN /\ req' = [req EXCEPT ![r] = Done("createWallet", q.user, 500)]
              /\ UNCHANGED wallets
         ELSE /\ wallets' = [PreSaveWallet(wallets, id, w) EXCEPT ![id] = w]
              /\ req' = [req EXCEPT ![r] = Done("createWallet", q.user, 201)]
  /\ UNCHANGED <<deposits, offers, trades, now, escrow>>
  /\ last' = Quiet

\* PATCH /wallets/:id: one findOneAndUpdate({_id, userId}, {label, isDefault});
\* update queries run no save middleware.
WalletUpdate(u, id, d) ==
  /\ wallets' = IF IsDoc(wallets[id]) /\ wallets[id].userId = u
                THEN [wallets EXCEPT ![id].isDefault = d]
                ELSE wallets
  /\ UNCHANGED <<deposits, offers, trades, req, now, escrow>>
  /\ last' = Quiet

\* DELETE /wallets/:id, first await: Wallet.findOne({_id, userId}) and the
\* balance check on what was read.
WalletDeleteFind(r, u, id) ==
  /\ Free(r)
  /\ req' = [req EXCEPT ![r] =
               IF ~(IsDoc(wallets[id]) /\ wallets[id].userId = u)
               THEN Done("deleteWallet", u, 404)
               ELSE IF wallets[id].balance > 0 \/ wallets[id].lockedBalance > 0
               THEN Done("deleteWallet", u, 400)
               ELSE [pc |-> "wd_delete", user |-> u, walletId |-> id]]
  /\ UNCHANGED <<wallets, deposits, offers, trades, now, escrow>>
  /\ last' = Quiet

\* DELETE /wallets/:id, second await: Wallet.findByIdAndDelete(id).
WalletDeleteExec(r) ==
  /\ req[r].pc = "wd_delete"
  /\ wallets' = [wallets EXCEPT ![req[r].walletId] =
                   IF IsDoc(@) THEN Deleted ELSE @]
  /\ req' = [req EXCEPT ![r] = Done("deleteWallet", req[r].user, 200)]
  /\ UNCHANGED <<deposits, offers, trades, now, escrow>>
  /\ last' = Quiet

(* ------------------------------ Deposit -------------------------------- *)
\* A confirmation that debits instead of credits.
DepositIncNegated(w, amount) ==
  [w EXCEPT !.balance = @ - amount, !.totalDeposits = @ + amount]

\* $inc: { balance: amount, totalDeposits: amount }
DepositInc(w, amount) ==
  [w EXCEPT !.balance = @ + amount, !.totalDeposits = @ + amount]

\* POST /deposits: Wallet.findOne({_id, userId}), Deposit.create with status
\* 'pending', and the setTimeout that schedules the confirmation.  The two
\* awaits are taken as one step: the create writes only the new deposit.
DepositCreate(u, id, amount) ==
  /\ IF ~(IsDoc(wallets[id]) /\ wallets[id].userId = u)
     THEN UNCHANGED deposits
     ELSE /\ HasFreeId(deposits)
          /\ deposits' = [deposits EXCEPT ![FreeId(deposits)] =
                            [userId |-> u, walletId |-> id, amount |-> amount,
                             status |-> "pending", timer |-> "scheduled"]]
  /\ UNCHANGED <<wallets, offers, trades, req, now, escrow>>
  /\ last' = Quiet

\* The timer callback, first await: deposit.save() with status 'confirmed'.
DepositConfirmSave(d) ==
  /\ IsDoc(deposits[d])
  /\ deposits[d].timer = "scheduled"
  /\ deposits' = [deposits EXCEPT ![d].status = "confirmed", ![d].timer = "saved"]
  /\ UNCHANGED <<wallets, offers, trades, req, now, escrow>>
  /\ last' = Quiet

\* The timer callback, second await: Wallet.findByIdAndUpdate(wallet._id,
\* {$inc}); a missing wallet makes it a no-op.
DepositConfirmInc(d) ==
  /\ IsDoc(deposits[d])
  /\ deposits[d].timer = "saved"
  /\ deposits' = [deposits EXCEPT ![d].timer = "done"]
  /\ wallets' = [wallets EXCEPT ![deposits[d].walletId] =
                   IF IsDoc(@) THEN DepositInc(@, deposits[d].amount) ELSE @]
  /\ UNCHANGED <<offers, trades, req, now, escrow>>
  /\ last' = Quiet

(* ------------------------------- Offer --------------------------------- *)
\* POST /offers: the checks of lines 84-102, P2POffer.create with expiresAt =
\* Date.now() + expiresInHours, the owner's notification and the response.
\* if (!x) holds of the number 0 and of no array, the empty one included; the
\* schema asks nothing of the length of paymentMethods.  A notification that
\* cannot be stored (delivered = FALSE) turns the answer into 500 after the
\* offer was stored.
OfferCreate(u, type, c, amount, price, minLimit, maxLimit, pms, expiresInHours, delivered) ==
  LET res == IF amount = 0 \/ price = 0 \/ minLimit = 0 \/ maxLimit = 0 THEN 400
             ELSE IF maxLimit < minLimit THEN 400
             ELSE IF amount < minLimit \/ amount > maxLimit THEN 400
             ELSE IF toUpperCase(c) \notin supportedCryptos THEN 400
             ELSE IF delivered THEN 201 ELSE 500
  IN
  /\ IF res = 400
     THEN UNCHANGED offers
     ELSE /\ HasFreeId(offers)
          /\ offers' = [offers EXCEPT ![FreeId(offers)] =
                          [userId |-> u, type |-> type,
                           cryptocurrency |-> toUpperCase(c),
                           amount |-> amount, price |-> price,
                           minLimit |-> minLimit, maxLimit |-> maxLimit,
                           paymentMethods |-> pms, status |-> "active",
                           expiresAt |-> now + expiresInHours]]
  /\ UNCHANGED <<wallets, deposits, trades, req, now, escrow>>
  /\ last' = Record([ev |-> "call", op |-> "createOffer", user |-> u,
                     cryptocurrency |-> c, amount |-> amount,
                     minLimit |-> minLimit, maxLimit |-> maxLimit,
                     paymentMethods |-> pms, res |-> res])

\* PATCH /offers/:id/status: one findOneAndUpdate({_id, userId}, {status}); no
\* document matched is answered 404 'Offer not found', whoever owns the offer.
OfferSetStatus(u, o, status) ==
  LET found == IsDoc(offers[o]) /\ offers[o].userId = u IN
  /\ offers' = IF found THEN [offers EXCEPT ![o].status = status] ELSE offers
  /\ UNCHANGED <<wallets, deposits, trades, req, now, escrow>>
  /\ last' = Record([ev |-> "call", op |-> "setStatus", user |-> u, id |-> o,
                     status |-> status, res |-> IF found THEN 200 ELSE 404])

(* ------------------------------- Trade --------------------------------- *)
\* The paths p2pTradeSchema declares (of those the handlers touch).  The schema
\* runs in mongoose's default strict mode: a path it does not declare is
\* dropped from a created document and from an update.
P2PTradePaths == {"offerId", "buyerId", "sellerId", "cryptocurrency", "amount",
                  "status", "escrowAmount"}

P2PTradeDefault(f) == IF f = "status" THEN "pending" ELSE Null

\* P2PTrade.create(doc)
P2PTradeCreate(doc) ==
  [f \in P2PTradePaths |-> IF f \in DOMAIN doc THEN doc[f] ELSE P2PTradeDefault(f)]

\* An update that also zeroes the escrow amount.
P2PTradeUpdateWiping(stored, updateData) ==
  [f \in DOMAIN stored |->
     IF f \in DOMAIN updateData THEN updateData[f]
     ELSE IF f = "escrowAmount" THEN 0 ELSE stored[f]]

\* P2PTrade.findByIdAndUpdate(id, updateData)
P2PTradeUpdate(stored, updateData) ==
  [f \in DOMAIN stored |-> IF f \in DOMAIN updateData THEN updateData[f] ELSE stored[f]]

\* const tradeAmount = amount / offer.price
TradeAmount(amount, price) == amount \div price

\* lockedBalance += tradeAmount; balance -= tradeAmount
LockEscrow(w, tradeAmount) ==
  [w EXCEPT !.lockedBalance = @ + tradeAmount, !.balance = @ - tradeAmount]

\* completed: buyerWallet.balance += trade.amount
ReleaseToBuyer(w, amount) == [w EXCEPT !.balance = @ + amount]

\* cancelled: sellerWallet.balance += trade.amount; lockedBalance -= trade.amount
ReturnToSeller(w, amount) ==
  [w EXCEPT !.balance = @ + amount, !.lockedBalance = @ - amount]

\* document.save() of a wallet read earlier: validation, the pre-save hook,
\* then $set of the modified paths on the stored document.
SaveWallet(ws, id, w, paths) ==
  [i \in WalletIds |->
     IF i = id /\ IsDoc(ws[i])
     THEN [f \in DOMAIN ws[i] |-> IF f \in paths THEN w[f] ELSE ws[i][f]]
     ELSE PreSaveWallet(ws, id, w)[i]]

\* An own-offer check that never fires.
IsOwnOfferNever(offer, u) == FALSE

\* offer.userId.toString() === req.user.id
IsOwnOffer(offer, u) == offer.userId = u

\* A limit check that forgets the upper limit.
OutsideLimitsBelow(amount, offer) == amount < offer.minLimit

\* amount < offer.minLimit || amount > offer.maxLimit
OutsideLimits(amount, offer) == amount < offer.minLimit \/ amount > offer.maxLimit

\* !offer.paymentMethods.includes(paymentMethod)
MethodUnsupported(pm, offer) == pm \notin offer.paymentMethods

\* The checks of lines 207-227 in their order: the status the handler answers
\* with, 0 when it goes on.
AcceptCheck(u, offer, amount, pm) ==
  IF ~IsDoc(offer) THEN 404
  ELSE IF offer.status # "active" THEN 400
  ELSE IF IsOwnOffer(offer, u) THEN 400
  ELSE IF OutsideLimits(amount, offer) THEN 400
  ELSE IF MethodUnsupported(pm, offer) THEN 400
  ELSE 0

\* POST /offers/:id/accept, lines 206-230: P2POffer.findById and the checks
\* on what was read.  (An amount within the limits is a multiple of the price.)
AcceptFindOffer(r, u, o, amount, pm) ==
  /\ Free(r)
  /\ (IsDoc(offers[o]) /\ ~OutsideLimits(amount, offers[o]))
       => amount % offers[o].price = 0
  /\ LET offer == offers[o]
         res == AcceptCheck(u, offer, amount, pm)
     IN  /\ req' = [req EXCEPT ![r] =
                IF res # 0 THEN Done("accept", u, res)
                ELSE [pc |-> "a_findWallet", user |-> u,
                      offerId |-> o, offer |-> offer, loadedAt |-> now,
                      tradeAmount |-> TradeAmount(amount, offer.price)]]
         /\ last' = Record([ev |-> "call", op |-> "accept", user |-> u, id |-> o,
                            amount |-> amount, pm |-> pm, res |-> res])
  /\ UNCHANGED <<wallets, deposits, offers, trades, now, escrow>>

\* Lines 235-271 up to the save: the wallet that is to back the escrow is the
\* caller's on a sell offer and the offer owner's on a buy offer.
AcceptFindWallet(r) ==
  /\ req[r].pc = "a_findWallet"
  /\ LET q == req[r]
         holder == IF q.offer.type = "sell" THEN q.user ELSE q.offer.userId
         id == FindOneWallet([userId |-> holder,
                             cryptocurrency |-> q.offer.cryptocurrency,
                             balance |-> [gte |-> q.tradeAmount],
                             isActive |-> TRUE])
     IN  /\ req' = [req EXCEPT ![r] =
                IF id = 0 THEN Done("accept", q.user, 400)
                ELSE [pc |-> "a_saveWallet", user |-> q.user,
                      offerId |-> q.offerId, offer |-> q.offer,
                      loadedAt |-> q.loadedAt,
                      tradeAmount |-> q.tradeAmount, walletId |-> id,
                      wallet |-> LockEscrow(wallets[id], q.tradeAmount)]]
         /\ last' = IF id = 0 THEN Answer("accept", 400) ELSE Quiet
  /\ UNCHANGED <<wallets, deposits, offers, trades, now, escrow>>

\* await wallet.save() of lines 253 and 270.
AcceptSaveWallet(r) ==
  /\ req[r].pc = "a_saveWallet"
  /\ LET q == req[r]
     IN  IF ~WalletValid(q.wallet)
         THEN /\ req' = [req EXCEPT ![r] = Done("accept", q.user, 500)]
              /\ last' = Answer("accept", 500)
              /\ UNCHANGED wallets
         ELSE /\ wallets' = SaveWallet(wallets, q.walletId, q.wallet,
                                       {"balance", "lockedBalance"})
              /\ last' = IF ~IsDoc(wallets[q.walletId])
                         THEN Answer("accept", 500) ELSE Quiet
              /\ req' = [req EXCEPT ![r] =
                   IF ~IsDoc(wallets[q.walletId])
                   THEN Done("accept", q.user, 500)
                   ELSE [pc |-> "a_createTrade", user |-> q.user,
                         offerId |-> q.offerId, offer |-> q.offer,
                         loadedAt |-> q.loadedAt,
                         tradeAmount |-> q.tradeAmount, walletId |-> q.walletId]]
  /\ UNCHANGED <<deposits, offers, trades, now, escrow>>

\* P2PTrade.create of lines 273-285 (while the model has an id left for the
\* new trade).
AcceptCreateTrade(r) ==
  /\ req[r].pc = "a_createTrade"
  /\ HasFreeId(trades)
  /\ LET q == req[r]
         t == FreeId(trades)
         sell == q.offer.type = "sell"
     IN  /\ trades' = [trades EXCEPT ![t] = P2PTradeCreate(
                [offerId |-> q.offerId,
                 buyerId |-> IF sell THEN q.user ELSE q.offer.userId,
                 sellerId |-> IF sell THEN q.offer.userId ELSE q.user,
                 cryptocurrency |-> q.offer.cryptocurrency,
                 amount |-> q.tradeAmount,
                 escrowAmount |-> q.tradeAmount,
                 escrowHeld |-> TRUE])]
         /\ escrow' = [escrow EXCEPT ![t].wallet = q.walletId,
                                      ![t].loadedAt = q.loadedAt]
         /\ req' = [req EXCEPT ![r] =
                [pc |-> "a_saveOffer", user |-> q.user, offerId |-> q.offerId,
                 offer |-> q.offer, tradeAmount |-> q.tradeAmount]]
  /\ UNCHANGED <<wallets, deposits, offers, now>>
  /\ last' = Quiet

\* Lines 287-293 on the offer document read at line 206.
ConsumeOffer(offer, tradeAmount) ==
  IF offer.amount <= tradeAmount
  THEN [offer EXCEPT !.status = "completed"]
  ELSE [offer EXCEPT !.amount = @ - tradeAmount]

\* await offer.save() of line 294: $set of the path the handler modified.
AcceptSaveOffer(r) ==
  /\ req[r].pc = "a_saveOffer"
  /\ LET q == req[r]
         o == ConsumeOffer(q.offer, q.tradeAmount)
     IN  /\ offers' = [offers EXCEPT ![q.offerId] =
                         IF q.offer.amount <= q.tradeAmount
                         THEN [@ EXCEPT !.status = o.status]
                         ELSE [@ EXCEPT !.amount = o.amount]]
         /\ req' = [req EXCEPT ![r] = [pc |-> "a_notify"]]
  /\ UNCHANGED <<wallets, deposits, trades, now, escrow>>
  /\ last' = Quiet

AcceptDone(q, res) == Idle

\* Lines 296-352: populate, the Notification.create calls and the 201; a
\* rejected Notification.create lands in the catch of lines 353-356.
AcceptNotify(r, delivered) ==
  /\ req[r].pc = "a_notify"
  /\ req' = [req EXCEPT ![r] = AcceptDone(req[r], IF delivered THEN 201 ELSE 500)]
  /\ last' = Answer("accept", IF delivered THEN 201 ELSE 500)
  /\ UNCHANGED <<wallets, deposits, offers, trades, now, escrow>>

\* The catch of lines 353-356 when the store rejects P2PTrade.create or
\* offer.save(): the handler answers 500 and undoes nothing.
AcceptThrow(r) ==
  /\ req[r].pc \in {"a_createTrade", "a_saveOffer"}
  /\ req' = [req EXCEPT ![r] = Done("accept", req[r].user, 500)]
  /\ last' = Answer("accept", 500)
  /\ UNCHANGED <<wallets, deposits, offers, trades, now, escrow>>

\* The handler's position and the locals its later awaits still read.
UpdateNext(q, pc, updateData) ==
  IF pc = "u_update"
  THEN [pc |-> pc, tradeId |-> q.tradeId, updateData |-> updateData]
  ELSE [pc |-> pc, tradeId |-> q.tradeId, trade |-> q.trade, updateData |-> updateData]

\* A participant check that lets everybody through.
IsPartyAnyone(trade, u) == TRUE

\* trade.buyerId.toString() === req.user.id || trade.sellerId... === req.user.id
IsParty(trade, u) == trade.buyerId = u \/ trade.sellerId = u

\* The checks of lines 408-421 in their order: the status the handler answers
\* with, 0 when it goes on.
UpdateCheck(u, trade, status) ==
  IF ~IsDoc(trade) THEN 404
  ELSE IF ~IsParty(trade, u) THEN 403
  ELSE IF status \notin validStatuses THEN 400
  ELSE 0

\* PATCH /trades/:id/status, lines 407-427: P2PTrade.findById, the participant
\* check, the status check and the start of updateData.
UpdateFindTrade(r, u, t, status) ==
  /\ Free(r)
  /\ LET trade == trades[t]
         held == IsTruthy(trade, "escrowHeld")
         res == UpdateCheck(u, trade, status)
     IN  /\ req' = [req EXCEPT ![r] =
                IF res # 0 THEN Done("updateTrade", u, res)
                ELSE UpdateNext([tradeId |-> t, trade |-> trade],
                                IF status = "completed" /\ held THEN "u_findBuyer"
                                ELSE IF status = "cancelled" /\ held THEN "u_findSeller"
                                ELSE "u_update",
                                [status |-> status])]
         /\ last' = Record([ev |-> "call", op |-> "updateTrade", user |-> u,
                            id |-> t, status |-> status, res |-> res])
  /\ UNCHANGED <<wallets, deposits, offers, trades, now, escrow>>

UpdateDone(q, res) == Idle

\* PATCH /trades/:id/status, lines 430-480: each await that follows the read of
\* the trade, by the handler's position.
\*   u_findBuyer / u_findSeller  Wallet.findOne of lines 435 and 459
\*   u_saveBuyer / u_saveSeller  wallet.save() of lines 442 and 467
\*   u_update                    P2PTrade.findByIdAndUpdate of line 474
UpdateTradeAwait(r) ==
  /\ req[r].pc \in {"u_findBuyer", "u_findSeller", "u_saveBuyer", "u_saveSeller", "u_update"}
  /\ LET q == req[r]
         released == [status |-> q.updateData.status, escrowHeld |-> FALSE]
     IN  CASE q.pc = "u_findBuyer" ->
                LET id == FindOneWallet([userId |-> q.trade.buyerId,
                                         cryptocurrency |-> q.trade.cryptocurrency])
                IN  /\ req' = [req EXCEPT ![r] =
                         IF id = 0 THEN UpdateNext(q, "u_update", released)
                         ELSE UpdateNext(q, "u_saveBuyer", q.updateData) @@
                              [walletId |-> id,
                               wallet |-> ReleaseToBuyer(wallets[id], q.trade.amount)]]
                    /\ last' = Quiet
                    /\ UNCHANGED <<wallets, trades, escrow>>
           [] q.pc = "u_findSeller" ->
                LET id == FindOneWallet([userId |-> q.trade.sellerId,
                                         cryptocurrency |-> q.trade.cryptocurrency])
                IN  /\ req' = [req EXCEPT ![r] =
                         IF id = 0 THEN UpdateNext(q, "u_update", released)
                         ELSE UpdateNext(q, "u_saveSeller", q.updateData) @@
                              [walletId |-> id,
                               wallet |-> ReturnToSeller(wallets[id], q.trade.amount)]]
                    /\ last' = Quiet
                    /\ UNCHANGED <<wallets, trades, escrow>>
           [] q.pc = "u_saveBuyer" ->
                IF ~WalletValid(q.wallet) \/ ~IsDoc(wallets[q.walletId])
                THEN /\ req' = [req EXCEPT ![r] = UpdateDone(q, 500)]
                     /\ last' = Answer("updateTrade", 500)
                     /\ UNCHANGED <<wallets, trades, escrow>>
                ELSE /\ wallets' = SaveWallet(wallets, q.walletId, q.wallet, {"balance"})
                     /\ escrow' = [escrow EXCEPT ![q.tradeId].released = @ + 1]
                     /\ req' = [req EXCEPT ![r] = UpdateNext(q, "u_update", released)]
                     /\ last' = Quiet
                     /\ UNCHANGED trades
           [] q.pc = "u_saveSeller" ->
                IF ~WalletValid(q.wallet) \/ ~IsDoc(wallets[q.walletId])
                THEN /\ req' = [req EXCEPT ![r] = UpdateDone(q, 500)]
                     /\ last' = Answer("updateTrade", 500)
                     /\ UNCHANGED <<wallets, trades, escrow>>
                ELSE /\ wallets' = SaveWallet(wallets, q.walletId, q.wallet,
                                              {"balance", "lockedBalance"})
                     /\ escrow' = [escrow EXCEPT ![q.tradeId].returned = @ + 1]
                     /\ req' = [req EXCEPT ![r] = UpdateNext(q, "u_update", released)]
                     /\ last' = Quiet
                     /\ UNCHANGED trades
           [] q.pc = "u_update" ->
                /\ trades' = [trades EXCEPT ![q.tradeId] = P2PTradeUpdate(@, q.updateData)]
                /\ req' = [req EXCEPT ![r] = UpdateDone(q, 200)]
                /\ last' = Answer("updateTrade", 200)
                /\ UNCHANGED <<wallets, escrow>>
  /\ UNCHANGED <<deposits, offers, now>>

(* ------------------------------- clock --------------------------------- *)
\* Date.now() advances (one unit is the offers' time to live).
Tick ==
  /\ now < MaxTime
  /\ now' = now + 1
  /\ UNCHANGED <<wallets, deposits, offers, trades, req, escrow>>
  /\ last' = Quiet

(* --------------------------- specification ----------------------------- *)
\* History of the escrow of a trade: the wallet the accept locked it in, the
\* time at which that accept read the offer, and how often the status handler
\* has released or returned the escrow.
NoEscrow == [wallet |-> 0, loadedAt |-> 0, released |-> 0, returned |-> 0]

Init ==
  /\ wallets = [i \in WalletIds |-> Null]
  /\ deposits = [i \in DepositIds |-> Null]
  /\ offers = [i \in OfferIds |-> Null]
  /\ trades = [i \in TradeIds |-> Null]
  /\ req = [r \in Reqs |-> Idle]
  /\ now = 0
  /\ escrow = [t \in TradeIds |-> NoEscrow]
  /\ last = NoHistory

Next ==
  \/ \E r \in Reqs, u \in Users, c \in Cryptos, n \in Networks, d \in DefaultInputs :
       WalletCreateFind(r, u, c, n, d)
  \/ \E r \in Reqs : WalletCreateInsert(r)
  \/ \E u \in Users, id \in WalletIds, a \in DepositAmounts : DepositCreate(u, id, a)
  \/ \E d \in DOMAIN deposits : DepositConfirmSave(d)
  \/ \E d \in DOMAIN deposits : DepositConfirmInc(d)
  \/ \E u \in OfferOwners, ty \in OfferTypes, c \in Cryptos, a \in OfferAmounts,
        p \in OfferPrices, lo \in OfferMinLimits, hi \in OfferMaxLimits,
        h \in ExpiresInHours, ok \in BOOLEAN :
       OfferCreate(u, ty, c, a, p, lo, hi, PaymentMethods, h, ok)
  \/ \E u \in Users, o \in OfferIds, s \in OfferStatusInputs : OfferSetStatus(u, o, s)
  \/ \E r \in Reqs, u \in Users, o \in OfferIds, a \in FiatAmounts,
        pm \in AcceptPaymentMethods :
       AcceptFindOffer(r, u, o, a, pm)
  \/ \E r \in Reqs : AcceptFindWallet(r)
  \/ \E r \in Reqs : AcceptSaveWallet(r)
  \/ \E r \in Reqs : AcceptCreateTrade(r)
  \/ \E r \in Reqs : AcceptSaveOffer(r)
  \/ \E r \in Reqs, ok \in BOOLEAN : AcceptNotify(r, ok)
  \/ \E r \in Reqs : AcceptThrow(r)
  \/ \E r \in Reqs, u \in TradeCallers, t \in DOMAIN trades, s \in TradeStatusInputs :
       UpdateFindTrade(r, u, t, s)
  \/ \E r \in Reqs : UpdateTradeAwait(r)

Spec == Init /\ [][Next]_vars

\* The same program with room for one more deposit, or for one more trade.
InitDeposits ==
  /\ Init!1 /\ Init!3 /\ Init!4 /\ Init!5 /\ Init!6 /\ Init!7 /\ Init!8
  /\ deposits = [i \in 1..(MaxDeposits + 1) |-> Null]

InitTrades ==
  /\ Init!1 /\ Init!2 /\ Init!3 /\ Init!5 /\ Init!6 /\ Init!8
  /\ trades = [i \in TradeIds \cup {2} |-> Null]
  /\ escrow = [t \in TradeIds \cup {2} |-> NoEscrow]

SpecDeposits == InitDeposits /\ [][Next]_vars
SpecTrades == InitTrades /\ [][Next]_vars

\* The same program with the clock running.
SpecClock == Init /\ [][Next \/ Tick]_vars

\* The wallet ledger alone: the owner's POST, PATCH and DELETE of wallets on
\* either network, with or without the default flag, and the deposits.
NextWallets ==
  \/ \E r \in Reqs, u \in Users, c \in Cryptos, n \in WalletNetworkInputs,
        d \in BOOLEAN :
       WalletCreateFind(r, u, c, n, d)
  \/ \E r \in Reqs : WalletCreateInsert(r)
  \/ \E u \in Users, id \in WalletIds, d \in BOOLEAN : WalletUpdate(u, id, d)
  \/ \E r \in Reqs, u \in Users, id \in WalletIds : WalletDeleteFind(r, u, id)
  \/ \E r \in Reqs : WalletDeleteExec(r)
  \/ \E u \in Users, id \in WalletIds, a \in DepositAmounts : DepositCreate(u, id, a)
  \/ \E d \in DOMAIN deposits : DepositConfirmSave(d)
  \/ \E d \in DOMAIN deposits : DepositConfirmInc(d)

SpecWallets == Init /\ [][NextWallets]_vars

\* The same program with the history of calls and answers switched on, and
\* room for one deposit.
InitResponses ==
  /\ Init!1 /\ Init!3 /\ Init!4 /\ Init!5 /\ Init!6 /\ Init!7
  /\ deposits = [i \in {1} |-> Null]
  /\ last = [ev |-> "none"]

SpecResponses == InitResponses /\ [][Next]_vars

\* The offer registry alone, with the history switched on, room for two offers
\* and every kind of body of POST /offers.
InitOffers ==
  /\ Init!1 /\ Init!2 /\ Init!4 /\ Init!5 /\ Init!6 /\ Init!7
  /\ offers = [i \in OfferIds \cup {2} |-> Null]
  /\ last = [ev |-> "none"]

NextOffers ==
  \/ \E u \in Users, ty \in OfferTypes, c \in OfferCryptoInputs,
        a \in OfferAmountInputs, p \in OfferPrices, lo \in OfferMinLimitInputs,
        hi \in OfferMaxLimits, pms \in OfferPaymentMethodInputs,
        h \in ExpiresInHours, ok \in BOOLEAN :
       OfferCreate(u, ty, c, a, p, lo, hi, pms, h, ok)
  \/ \E u \in Users, o \in DOMAIN offers, s \in OfferStatusInputs :
       OfferSetStatus(u, o, s)

SpecOffers == InitOffers /\ [][NextOffers]_vars

(* ------------------------------- claims -------------------------------- *)
WalletDocs == {i \in DOMAIN wallets : IsDoc(wallets[i])}
TradeDocs == {t \in DOMAIN trades : IsDoc(trades[t])}
AcceptPcs == {"a_findWallet", "a_saveWallet", "a_createTrade", "a_saveOffer", "a_notify"}

\* The escrow of trade t is held: an accept locked it and the status handler
\* has neither released nor returned it since.
EscrowOutstanding(t) ==
  /\ escrow[t].wallet # 0
  /\ escrow[t].released = 0
  /\ escrow[t].returned = 0

RECURSIVE SumOver(_, _)
SumOver(S, f) ==
  IF S = {} THEN 0
  ELSE LET x == CHOOSE y \in S : TRUE IN f[x] + SumOver(S \ {x}, f)

\* Per wallet, available plus locked.
Holdings == [i \in DOMAIN wallets |->
               IF IsDoc(wallets[i]) THEN wallets[i].balance + wallets[i].lockedBalance
               ELSE 0]
TotalHoldings == SumOver(DOMAIN wallets, Holdings)

\* C1: in every reachable state every wallet has available balance >= 0 and
\* locked balance >= 0.
C1_NonNegativeBalances ==
  \A i \in WalletDocs : wallets[i].balance >= 0 /\ wallets[i].lockedBalance >= 0

\* C1 witness: a wallet was created, a deposit into it was confirmed, an accept
\* locked all of it in escrow and the trade was then cancelled.
C1_Witness ==
  \E t \in TradeDocs, i \in WalletDocs :
    /\ trades[t].status = "cancelled"
    /\ escrow[t].wallet = i
    /\ wallets[i].totalDeposits > 0
    /\ wallets[i].lockedBalance > 0
    /\ wallets[i].balance = 0

\* C2: the sum over all wallets of available + locked changes only in the step
\* that credits a confirmed deposit.
C2_OnlyDepositsChangeTotal ==
  [][\/ TotalHoldings' = TotalHoldings
     \/ \E d \in DOMAIN deposits :
          deposits[d].timer = "saved" /\ deposits'[d].timer = "done"]_vars

\* C3: while the escrow of a trade is held, the wallet of the trade's sellerId
\* for the trade's cryptocurrency has locked balance >= the escrow amount.
C3_EscrowLockedInSellerWallet ==
  \A t \in TradeDocs :
    EscrowOutstanding(t) =>
      \E i \in WalletDocs :
        /\ wallets[i].userId = trades[t].sellerId
        /\ wallets[i].cryptocurrency = trades[t].cryptocurrency
        /\ wallets[i].lockedBalance >= trades[t].escrowAmount

\* C4: escrow accounting triggers exactly once per terminal transition: a trade
\* that has become completed or cancelled has had its escrow either released
\* to the buyer or returned, never both and never neither.
C4_ExactlyOneMovementWhenTerminal ==
  \A t \in TradeDocs :
    trades[t].status \in {"completed", "cancelled"} =>
      escrow[t].released + escrow[t].returned = 1

\* C5: however often the completion of a trade is invoked, the buyer's wallet
\* is credited with the escrow amount exactly once.
C5_CompletionCreditsBuyerOnce ==
  \A t \in TradeDocs :
    trades[t].status = "completed" =>
      /\ escrow[t].released = 1
      /\ \E i \in WalletDocs :
           /\ wallets[i].userId = trades[t].buyerId
           /\ wallets[i].balance >= trades[t].escrowAmount

\* C6: of concurrent accepts of one offer whose quantities sum to more than the
\* amount the offer has left, at most one gets as far as creating a trade.
C6_OneConcurrentAcceptSucceeds ==
  \A r1, r2 \in Reqs :
    (/\ r1 # r2
     /\ req[r1].pc = "a_saveOffer" /\ req[r2].pc = "a_saveOffer"
     /\ req[r1].offerId = req[r2].offerId)
    => req[r1].tradeAmount + req[r2].tradeAmount <= offers[req[r1].offerId].amount

\* C7: each successful accept decrements the offer's amount by exactly the
\* trade's crypto amount, and the offer is completed exactly when the amount
\* left reaches zero.
C7_AcceptDecrementsOffer ==
  [][\A r \in Reqs :
       (req[r].pc = "a_saveOffer" /\ req'[r].pc = "a_notify") =>
         LET o == req[r].offerId
         IN  /\ offers'[o].amount = offers[o].amount - req[r].tradeAmount
             /\ (offers'[o].status = "completed") = (offers'[o].amount = 0)]_vars

\* C8: no trade comes from an accept that read the offer at or after the
\* offer's expiresAt.
C8_ExpiredOfferNeverAccepted ==
  \A t \in TradeDocs : escrow[t].loadedAt < offers[trades[t].offerId].expiresAt

\* C9: balance mutations on a wallet are linearizable.  Every serial order of
\* escrow locks and deposit credits keeps available + locked equal to the
\* deposits credited to the wallet, so a wallet on which that fails has lost
\* an update.
C9_NoLostUpdate ==
  \A i \in WalletDocs :
    wallets[i].balance + wallets[i].lockedBalance = wallets[i].totalDeposits

\* C10: once no accept is in flight, every wallet with locked funds backs a
\* trade that exists.
C10_NoLockWithoutTrade ==
  (\A r \in Reqs : req[r].pc \notin AcceptPcs) =>
    \A i \in WalletDocs :
      wallets[i].lockedBalance > 0 => \E t \in TradeDocs : escrow[t].wallet = i

\* C11: a call of the trade status route by a user who is neither the buyer
\* nor the seller of the trade is answered 403, ends the handler there, and
\* changes no trade (status, escrow fields) and no wallet.
C11_NonPartyRejected ==
  [][(/\ last'.ev = "call"
      /\ last'.op = "updateTrade"
      /\ IsDoc(trades[last'.id])
      /\ trades[last'.id].buyerId # last'.user
      /\ trades[last'.id].sellerId # last'.user)
     => /\ last'.res = 403
        /\ UNCHANGED <<wallets, trades, escrow, req>>]_vars

\* C11 witness: a third user has just called the route on a trade whose escrow
\* is locked, and was answered 403.
C11_Witness ==
  /\ last.ev = "call"
  /\ last.op = "updateTrade"
  /\ last.res = 403
  /\ last.user \notin {trades[last.id].buyerId, trades[last.id].sellerId}
  /\ EscrowOutstanding(last.id)

\* C12: a trade starts in 'pending', and 'completed' and 'cancelled' are
\* terminal: the status of a completed or cancelled trade never changes.
C12_TerminalStatusIsFinal ==
  [][\A t \in DOMAIN trades :
       /\ (~IsDoc(trades[t]) /\ IsDoc(trades'[t])) => trades'[t].status = "pending"
       /\ (IsDoc(trades[t]) /\ trades[t].status \in {"completed", "cancelled"})
            => trades'[t].status = trades[t].status]_vars

\* C13: a disputed trade is frozen: no call of its buyer or seller changes its
\* status away from 'disputed' or moves escrow funds.
C13_DisputedIsFrozen ==
  [][\A t \in DOMAIN trades :
       (IsDoc(trades[t]) /\ trades[t].status = "disputed")
         => /\ trades'[t].status = "disputed"
            /\ escrow'[t] = escrow[t]]_vars

\* C14: an accept called by the offer's own owner is answered 400, ends the
\* handler there, creates no trade, locks no funds and leaves the offer as it
\* was.
C14_SelfTradeRejected ==
  [][(/\ last'.ev = "call"
      /\ last'.op = "accept"
      /\ IsDoc(offers[last'.id])
      /\ offers[last'.id].userId = last'.user)
     => /\ last'.res = 400
        /\ UNCHANGED <<wallets, trades, offers, escrow, req>>]_vars

\* C14 witness: the owner of an active offer has just called accept on it with
\* an amount within the limits and a supported payment method, while a wallet
\* that could back the escrow exists, and was answered 400.
C14_Witness ==
  /\ last.ev = "call"
  /\ last.op = "accept"
  /\ last.res = 400
  /\ offers[last.id].userId = last.user
  /\ offers[last.id].status = "active"
  /\ last.amount >= offers[last.id].minLimit
  /\ last.amount <= offers[last.id].maxLimit
  /\ last.pm \in offers[last.id].paymentMethods
  /\ \E i \in WalletDocs : wallets[i].balance >= last.amount \div offers[last.id].price

\* C15: an accept with an amount below the offer's minLimit or above its
\* maxLimit, or with a payment method the offer does not list, is answered
\* 400, ends the handler there, creates no trade, changes no wallet and leaves
\* the offer as it was.
C15_InvalidAcceptRejected ==
  [][(/\ last'.ev = "call"
      /\ last'.op = "accept"
      /\ IsDoc(offers[last'.id])
      /\ \/ last'.amount < offers[last'.id].minLimit
         \/ last'.amount > offers[last'.id].maxLimit
         \/ last'.pm \notin offers[last'.id].paymentMethods)
     => /\ last'.res = 400
        /\ UNCHANGED <<wallets, trades, offers, escrow, req>>]_vars

\* C15 witness: somebody other than the owner has just called accept on an
\* active offer with an amount within the limits and a payment method the
\* offer does not list, while a wallet that could back the escrow exists, and
\* was answered 400.
C15_Witness ==
  /\ last.ev = "call"
  /\ last.op = "accept"
  /\ last.res = 400
  /\ offers[last.id].userId # last.user
  /\ offers[last.id].status = "active"
  /\ last.amount >= offers[last.id].minLimit
  /\ last.amount <= offers[last.id].maxLimit
  /\ last.pm \notin offers[last.id].paymentMethods
  /\ \E i \in WalletDocs : wallets[i].balance >= last.amount \div offers[last.id].price

\* C16: when the party whose wallet the accept handler looks for (the caller
\* on a sell offer, the offer's owner on a buy offer) has no active wallet of
\* the offer's cryptocurrency with available balance >= the trade amount, the
\* accept is answered 400 and ends there: no trade is created, the offer is
\* not consumed and no wallet changes.
C16_InsufficientFundsRejected ==
  [][\A r \in Reqs :
       (/\ req[r].pc = "a_findWallet"
        /\ req'[r] # req[r]
        /\ LET q == req[r]
               holder == IF q.offer.type = "sell" THEN q.user ELSE q.offer.userId
           IN  ~\E i \in WalletDocs :
                  /\ wallets[i].userId = holder
                  /\ wallets[i].cryptocurrency = q.offer.cryptocurrency
                  /\ wallets[i].isActive
                  /\ wallets[i].balance >= q.tradeAmount)
       => /\ req'[r] = Idle
          /\ last' = [ev |-> "answer", op |-> "accept", res |-> 400]
          /\ UNCHANGED <<wallets, trades, offers, escrow>>]_vars

\* C16 witness: an accept has just been answered 400 after its wallet lookup,
\* while the only wallets there are hold less than the smallest trade amount.
C16_Witness ==
  /\ last = [ev |-> "answer", op |-> "accept", res |-> 400]
  /\ WalletDocs # {}
  /\ \A i \in WalletDocs : wallets[i].balance < 2
  /\ TradeDocs = {}

\* C17: an accept that succeeds with a trade amount strictly below the amount
\* the offer has left creates one trade with status 'pending', amount =
\* escrowAmount = the trade amount and escrowHeld = true, and then reduces the
\* offer's amount by exactly the trade amount, leaving the offer 'active'.
C17_AcceptEffect ==
  [][\A r \in Reqs :
       /\ (/\ req[r].pc = "a_createTrade"
           /\ req'[r].pc = "a_saveOffer"
           /\ req[r].tradeAmount < req[r].offer.amount)
          => \E t \in DOMAIN trades :
               /\ ~IsDoc(trades[t])
               /\ IsDoc(trades'[t])
               /\ \A x \in DOMAIN trades \ {t} : trades'[x] = trades[x]
               /\ trades'[t].status = "pending"
               /\ trades'[t].amount = req[r].tradeAmount
               /\ trades'[t].escrowAmount = req[r].tradeAmount
               /\ IsTruthy(trades'[t], "escrowHeld")
       /\ (/\ req[r].pc = "a_saveOffer"
           /\ req'[r].pc = "a_notify"
           /\ req[r].tradeAmount < req[r].offer.amount)
          => /\ offers'[req[r].offerId].amount
                  = req[r].offer.amount - req[r].tradeAmount
             /\ offers'[req[r].offerId].status = "active"]_vars

\* C18: accept followed by cancel is a round trip on the wallet the escrow was
\* locked in: once the trade is cancelled the escrow has been returned to that
\* wallet, whose locked balance is back at what it was before the accept
\* (nothing, with one trade) and whose available balance again holds
\* everything deposited.
C18_CancelRoundTrip ==
  \A t \in TradeDocs :
    (trades[t].status = "cancelled" /\ escrow[t].wallet # 0) =>
      LET w == wallets[escrow[t].wallet]
      IN  /\ escrow[t].returned = 1
          /\ w.lockedBalance = 0
          /\ w.balance = w.totalDeposits

\* C19: accept followed by complete hands the escrow to the other party: once
\* the trade is completed the buyer is not the user whose wallet was locked,
\* a wallet of the buyer holds the escrow amount as available balance, and
\* nothing was returned to the locked wallet.
C19_CompleteNeverRefundsLocker ==
  \A t \in TradeDocs :
    (trades[t].status = "completed" /\ escrow[t].wallet # 0) =>
      /\ wallets[escrow[t].wallet].userId # trades[t].buyerId
      /\ escrow[t].returned = 0
      /\ \E i \in WalletDocs \ {escrow[t].wallet} :
           /\ wallets[i].userId = trades[t].buyerId
           /\ wallets[i].balance >= trades[t].escrowAmount

UpdatePcs == {"u_findBuyer", "u_findSeller", "u_saveBuyer", "u_saveSeller", "u_update"}

\* C20: no step of a call of the trade status route with a status other than
\* 'completed' or 'cancelled' changes a wallet or moves escrow, and the trade
\* keeps its escrowAmount and its escrowHeld.
C20_OtherStatusTouchesNoBalance ==
  [][\A r \in Reqs :
       LET q == IF req[r].pc \in UpdatePcs THEN req[r] ELSE req'[r]
       IN  (/\ req'[r] # req[r]
            /\ q.pc \in UpdatePcs
            /\ q.updateData.status \notin {"completed", "cancelled"})
           => /\ UNCHANGED <<wallets, escrow>>
              /\ trades'[q.tradeId].escrowAmount = trades[q.tradeId].escrowAmount
              /\ IsTruthy(trades'[q.tradeId], "escrowHeld")
                   = IsTruthy(trades[q.tradeId], "escrowHeld")]_vars

\* C20 witness: a trade whose escrow is locked has been moved to 'disputed'.
C20_Witness ==
  \E t \in TradeDocs :
    /\ trades[t].status = "disputed"
    /\ EscrowOutstanding(t)
    /\ wallets[escrow[t].wallet].lockedBalance = trades[t].escrowAmount

\* C21: notification delivery is best-effort: an accept that has locked the
\* escrow, created the trade and consumed the offer is answered 201 whether or
\* not its notifications could be stored, and keeps what it wrote.
C21_NotificationBestEffort ==
  [][\A r \in Reqs :
       (req[r].pc = "a_notify" /\ req'[r] # req[r])
         => /\ last' = [ev |-> "answer", op |-> "accept", res |-> 201]
            /\ UNCHANGED <<wallets, trades, offers, escrow>>]_vars

\* C22: an offer is stored only from a valid body: a POST /offers whose limits
\* are inverted, whose amount lies outside them, whose cryptocurrency is not
\* supported or whose list of payment methods is empty is answered 400 and
\* stores no offer.
C22_InvalidOfferRejected ==
  [][(/\ last'.ev = "call"
      /\ last'.op = "createOffer"
      /\ \/ last'.maxLimit < last'.minLimit
         \/ last'.amount < last'.minLimit
         \/ last'.amount > last'.maxLimit
         \/ toUpperCase(last'.cryptocurrency) \notin supportedCryptos
         \/ last'.paymentMethods = {})
       => /\ last'.res = 400
          /\ UNCHANGED offers]_vars

\* C23: only the owner sets the status of an offer: the call of another user
\* on an existing offer is answered 403 (a missing offer 404) and leaves the
\* offer as it was.
C23_NonOwnerForbidden ==
  [][(/\ last'.ev = "call"
      /\ last'.op = "setStatus"
      /\ IsDoc(offers[last'.id])
      /\ offers[last'.id].userId # last'.user)
       => /\ last'.res = 403
          /\ UNCHANGED offers]_vars

\* C24: no user ever has two wallets of the same cryptocurrency on the same
\* network, whatever the interleaving of the requests that create them.
C24_NoDuplicateWallet ==
  \A i, j \in WalletDocs :
    (/\ wallets[i].userId = wallets[j].userId
     /\ wallets[i].cryptocurrency = wallets[j].cryptocurrency
     /\ wallets[i].network = wallets[j].network) => i = j

\* Two concurrent creations of the same wallet: one request has passed the
\* lookup and is about to insert, the other has inserted in the meantime.
C24_Witness ==
  \E r \in Reqs, i \in WalletDocs :
    /\ req[r].pc = "w_create"
    /\ wallets[i].userId = req[r].user
    /\ wallets[i].cryptocurrency = req[r].cryptocurrency
    /\ wallets[i].network = req[r].network

\* C25: after any sequence of wallet creations and updates a user has at most
\* one default wallet per cryptocurrency.
C25_OneDefaultPerCryptocurrency ==
  \A i, j \in WalletDocs :
    (/\ wallets[i].userId = wallets[j].userId
     /\ wallets[i].cryptocurrency = wallets[j].cryptocurrency
     /\ wallets[i].isDefault
     /\ wallets[j].isDefault) => i = j

\* C26: a wallet that holds funds is never deleted: at the step that removes a
\* wallet its available and its locked balance are zero.
C26_FundedWalletNeverDeleted ==
  [][\A i \in WalletIds :
       (IsDoc(wallets[i]) /\ wallets'[i] = Deleted)
         => (wallets[i].balance = 0 /\ wallets[i].lockedBalance = 0)]_vars

\* C27: a stored trade carries every field the engine writes: the escrowHeld
\* flag an accept creates it with can be read back from the stored document.
C27_TradeCarriesEscrowHeld ==
  \A t \in TradeDocs : "escrowHeld" \in DOMAIN trades[t]

C29_LockedEqualsEscrowBacked ==
  \A i \in WalletDocs :
    (\A r \in Reqs : req[r].pc \notin AcceptPcs) =>
    wallets[i].lockedBalance =
      SumOver({t \in TradeDocs : /\ escrow[t].wallet = i
                                 /\ IsTruthy(trades[t], "escrowHeld")
                                 /\ trades[t].status \notin {"completed", "cancelled"}},
              [t \in DOMAIN trades |-> IF IsDoc(trades[t]) THEN trades[t].escrowAmount ELSE 0])

\* C30: a deposit that is confirmed has credited its wallet: the step that ends
\* the confirmation of a deposit leaves its wallet in place with the available
\* balance and totalDeposits raised by the deposit's amount.
C30_ConfirmedDepositCredited ==
  [][\A d \in DOMAIN deposits :
       (/\ IsDoc(deposits[d])
        /\ deposits[d].timer = "saved"
        /\ deposits'[d].timer = "done")
         => /\ IsDoc(wallets[deposits[d].walletId])
            /\ IsDoc(wallets'[deposits[d].walletId])
            /\ wallets'[deposits[d].walletId].balance
                 = wallets[deposits[d].walletId].balance + deposits[d].amount
            /\ wallets'[deposits[d].walletId].totalDeposits
                 = wallets[deposits[d].walletId].totalDeposits + deposits[d].amount]_vars

====
